---- MODULE Spec2Model ----
(***************************************************************************)
(* Ensemble parameter-expansion strategies of SmartSim                     *)
(* (smartsim/entity/strategies.py, smartsim/entity/_new_ensemble.py).      *)
(*                                                                         *)
(* Python values are represented as follows.                               *)
(*   - a parameter space (an insertion-ordered dict name -> sequence) is a *)
(*     sequence of records [name, vals];                                   *)
(*   - an assignment (a dict name -> value) is a set of <<name, value>>    *)
(*     pairs; an Optional assignment is [isNone, items];                   *)
(*   - a ParamSet is a record [params, exe_args] of Optional assignments;  *)
(*   - the outcome of a call is [exc, value]: exc = "" for a normal        *)
(*     return, otherwise the name of the exception raised.                 *)
(***************************************************************************)
EXTENDS Integers, Sequences, FiniteSets, TLC

VARIABLES file_params, exe_arg_params, n_permutations, called, permutations,
          REGISTERED_STRATEGIES, reg_call, reg_ret, threads,
          ctor_args, ensemble, applications, launch_settings, jobs, objects,
          user_calls, sanitized_ret, cluster

vars == <<file_params, exe_arg_params, n_permutations, called, permutations,
          REGISTERED_STRATEGIES, reg_call, reg_ret, threads,
          ctor_args, ensemble, applications, launch_settings, jobs, objects,
          user_calls, sanitized_ret, cluster>>

strategy_vars == <<file_params, exe_arg_params, n_permutations, called, permutations>>

registry_vars == <<REGISTERED_STRATEGIES, reg_call, reg_ret, threads>>

ensemble_vars == <<ctor_args, ensemble, applications, launch_settings, jobs, objects>>

user_vars == <<user_calls, sanitized_ret>>

(***************************************************************************)
(* Bounds of the model.                                                    *)
(***************************************************************************)
MaxParams == 2

MaxLen == 2

MaxBudget == 4

MaxReplicas == 2

MaxItems == 2

MaxNodes == 2

MaxPorts == 2

MaxMutations == 2

\* the number of verification attempts check_cluster_status allows
Trials == 10

(***************************************************************************)
(* Generic helpers.                                                        *)
(***************************************************************************)
Min(a, b) == IF a <= b THEN a ELSE b

Max(a, b) == IF a >= b THEN a ELSE b

Range(s) == {s[i] : i \in 1..Len(s)}

RECURSIVE Flatten(_)
Flatten(ss) == IF ss = <<>> THEN <<>> ELSE Head(ss) \o Flatten(Tail(ss))

Return(v) == [exc |-> "", value |-> v]

Raise(e) == [exc |-> e, value |-> <<>>]

None == [isNone |-> TRUE, items |-> {}]

Dict(items) == [isNone |-> FALSE, items |-> items]

ParamSet(p, e) == [params |-> p, exe_args |-> e]

(***************************************************************************)
(* Python built-ins used by the strategies.                                *)
(***************************************************************************)
\* dict.values() / iteration over a dict: insertion order
Values(space) == [j \in 1..Len(space) |-> space[j].vals]

Keys(space) == [j \in 1..Len(space) |-> space[j].name]

\* lst[:n + 1] for a budget n >= 0: the slice that keeps one element more
SliceTo_one_more(lst, n) ==
    IF n >= 0 THEN SubSeq(lst, 1, Min(n + 1, Len(lst)))
              ELSE SubSeq(lst, 1, Max(Len(lst) + n, 0))

\* lst[:n]
SliceTo(lst, n) ==
    IF n >= 0 THEN SubSeq(lst, 1, Min(n, Len(lst)))
              ELSE SubSeq(lst, 1, Max(Len(lst) + n, 0))

\* itertools.product(*seqs): rightmost element advances fastest; the product
\* of no sequences is the one empty tuple
RECURSIVE Product(_)
Product(seqs) ==
    IF seqs = <<>> THEN << <<>> >>
    ELSE LET rest == Product(Tail(seqs))
             h == Head(seqs)
         IN Flatten([i \in 1..Len(h) |-> [k \in 1..Len(rest) |-> <<h[i]>> \o rest[k]]])

\* the pairs of itertools.product(a, b) with the second list advancing
\* slowest
Product2_second_outer(a, b) ==
    Flatten([k \in 1..Len(b) |-> [i \in 1..Len(a) |-> <<a[i], b[k]>>]])

\* itertools.product(a, b) of two lists
Product2(a, b) ==
    Flatten([i \in 1..Len(a) |-> [k \in 1..Len(b) |-> <<a[i], b[k]>>]])

\* zip(*seqs): stops at the shortest sequence; zip() of nothing is empty
RECURSIVE MinLen(_)
MinLen(seqs) ==
    IF Len(seqs) = 1 THEN Len(seqs[1])
    ELSE Min(Len(Head(seqs)), MinLen(Tail(seqs)))

Zip(seqs) ==
    IF seqs = <<>> THEN <<>>
    ELSE [i \in 1..MinLen(seqs) |-> [j \in 1..Len(seqs) |-> seqs[j][i]]]

\* dict(zip(names, tuple))
DictZip(names, tuple) ==
    Dict({<<names[j], tuple[j]>> : j \in 1..Min(Len(names), Len(tuple))})

\* itertools.zip_longest(a, b): the shorter side is filled with None
ZipLongest(a, b) ==
    [i \in 1..Max(Len(a), Len(b)) |->
        <<IF i <= Len(a) THEN a[i] ELSE None, IF i <= Len(b) THEN b[i] ELSE None>>]

\* list(itertools.islice(it, n)): a negative stop is a ValueError
Islice(it, n) ==
    IF n < 0 THEN Raise("ValueError") ELSE Return(SubSeq(it, 1, Min(n, Len(it))))

(***************************************************************************)
(* The built-in strategies.                                                *)
(***************************************************************************)
\* [dict(zip(space, permutation)) for permutation in itertools.product(*space.values())]
ProductDicts(space) ==
    LET permutations_ == Product(Values(space))
    IN [i \in 1..Len(permutations_) |-> DictZip(Keys(space), permutations_[i])]

\* [dict(zip(space, step)) for step in zip(*space.values())]
StepDicts(space) ==
    LET steps == Zip(Values(space))
    IN [i \in 1..Len(steps) |-> DictZip(Keys(space), steps[i])]

\* create_all_permutations without the final islice: each axis is truncated,
\* their product is not
create_all_permutations_unsliced(fp, ea, n) ==
    LET param_zip == SliceTo(ProductDicts(fp), n)
        exe_arg_zip == SliceTo(ProductDicts(ea), n)
        combinations == Product2(param_zip, exe_arg_zip)
    IN Return([i \in 1..Len(combinations) |->
                  ParamSet(combinations[i][1], combinations[i][2])])

create_all_permutations(fp, ea, n) ==
    LET param_zip == SliceTo(ProductDicts(fp), n)
        exe_arg_zip == SliceTo(ProductDicts(ea), n)
        combinations == Product2(param_zip, exe_arg_zip)
        param_set == [i \in 1..Len(combinations) |->
                         ParamSet(combinations[i][1], combinations[i][2])]
    IN Islice(param_set, n)

\* step_values that ignores its budget, as its docstring says it does
step_values_budget_ignored(params, exe_args, n) ==
    LET param_zip == StepDicts(params)
        exe_arg_zip == StepDicts(exe_args)
        pairs == ZipLongest(param_zip, exe_arg_zip)
    IN Return([i \in 1..Len(pairs) |-> ParamSet(pairs[i][1], pairs[i][2])])

step_values(params, exe_args, n) ==
    LET param_zip == SliceTo(StepDicts(params), n)
        exe_arg_zip == SliceTo(StepDicts(exe_args), n)
        pairs == ZipLongest(param_zip, exe_arg_zip)
        param_set == [i \in 1..Len(pairs) |-> ParamSet(pairs[i][1], pairs[i][2])]
    IN Islice(param_set, n)

\* random.sample(population, k): every sequence of k elements taken at
\* pairwise distinct positions of the population is a possible outcome
Sample(population, k) ==
    {[i \in 1..k |-> population[idx[i]]] :
        idx \in {f \in [1..k -> 1..Len(population)] :
                    \A i, j \in 1..k : i # j => f[i] # f[j]}}

\* random_permutations that samples whenever the budget does not exceed the
\* population, and with replacement (random.choices for random.sample)
random_permutations_with_replacement(params, exe_args, n) ==
    LET all == create_all_permutations(params, exe_args, n)
    IN IF all.exc # "" THEN {all}
       ELSE IF 0 < n /\ n <= Len(all.value)
            THEN {Return([i \in 1..n |-> all.value[idx[i]]]) :
                     idx \in [1..n -> 1..Len(all.value)]}
            ELSE {all}

\* random_permutations that samples also when the budget equals the number
\* of permutations, which shuffles them
random_permutations_shuffling(params, exe_args, n) ==
    LET all == create_all_permutations(params, exe_args, n)
    IN IF all.exc # "" THEN {all}
       ELSE IF 0 < n /\ n <= Len(all.value)
            THEN {Return(s) : s \in Sample(all.value, n)}
            ELSE {all}

\* The set of possible outcomes of random_permutations
random_permutations(params, exe_args, n) ==
    LET all == create_all_permutations(params, exe_args, n)
    IN IF all.exc # "" THEN {all}
       ELSE IF 0 < n /\ n < Len(all.value)
            THEN {Return(s) : s \in Sample(all.value, n)}
            ELSE {all}

(***************************************************************************)
(* The strategy registry.  _REGISTERED_STRATEGIES is an insertion-ordered  *)
(* dict: a sequence of records [name, fn], fn the identity of a function.  *)
(* A raised exception carries its message in value, as a sequence of text  *)
(* fragments.                                                              *)
(***************************************************************************)
RaiseWith(e, msg) == [exc |-> e, value |-> msg]

Names(reg) == [j \in 1..Len(reg) |-> reg[j].name]

Lookup(reg, name) == reg[CHOOSE j \in 1..Len(reg) : reg[j].name = name].fn

\* sep.join(strs)
RECURSIVE Join(_, _)
Join(strs, sep) ==
    IF strs = <<>> THEN <<>>
    ELSE IF Len(strs) = 1 THEN strs
    ELSE <<Head(strs), sep>> \o Join(Tail(strs), sep)

\* _register(name)(fn) that stores fn whether or not the name is taken
register_overwriting(reg, name, fn) ==
    [registry |-> IF name \in Range(Names(reg))
                  THEN [j \in 1..Len(reg) |->
                           IF reg[j].name = name THEN [name |-> name, fn |-> fn]
                                                 ELSE reg[j]]
                  ELSE Append(reg, [name |-> name, fn |-> fn]),
     ret |-> Return(fn)]

\* _register(name)(fn): the registry after the call and the call's outcome
register(reg, name, fn) ==
    IF name \in Range(Names(reg))
    THEN [registry |-> reg,
          ret |-> RaiseWith("ValueError",
                      <<"A strategy with the name '", name,
                        "' has already been registered">>)]
    ELSE [registry |-> Append(reg, [name |-> name, fn |-> fn]),
          ret |-> Return(fn)]

\* _REGISTERED_STRATEGIES[name] = fn: a key already present keeps its place
\* and takes the new value
DictSet(reg, name, fn) ==
    IF name \in Range(Names(reg))
    THEN [j \in 1..Len(reg) |->
             IF reg[j].name = name THEN [name |-> name, fn |-> fn] ELSE reg[j]]
    ELSE Append(reg, [name |-> name, fn |-> fn])

\* the wrapper _make_sanitized_custom_strategy(fn) returns
make_sanitized_custom_strategy(fn) == [sanitized |-> TRUE, fn |-> fn]

\* a strategy argument: the name of a strategy, or a callable
StrategyName(name) == [isCallable |-> FALSE, v |-> name]

Callable(fn) == [isCallable |-> TRUE, v |-> fn]

\* resolve whose error message names only the strategy that was asked for
resolve_without_known_names(reg, strategy) ==
    IF strategy.isCallable
    THEN Return(make_sanitized_custom_strategy(strategy.v))
    ELSE IF strategy.v \in Range(Names(reg))
         THEN Return([sanitized |-> FALSE, fn |-> Lookup(reg, strategy.v)])
         ELSE RaiseWith("ValueError",
                  <<"Failed to find an ensembling strategy by the name of '",
                    strategy.v, "'.">>)

resolve(reg, strategy) ==
    IF strategy.isCallable
    THEN Return(make_sanitized_custom_strategy(strategy.v))
    ELSE IF strategy.v \in Range(Names(reg))
         THEN Return([sanitized |-> FALSE, fn |-> Lookup(reg, strategy.v)])
         ELSE RaiseWith("ValueError",
                  <<"Failed to find an ensembling strategy by the name of '",
                    strategy.v, "'.", "All known strategies are:\n">>
                  \o Join(Names(reg), ", "))

\* the registry once strategies.py is imported: the three @_register
\* decorators have run in source order
ImportedRegistry ==
    register(
        register(
            register(<<>>, "all_perm", "create_all_permutations").registry,
            "step", "step_values").registry,
        "random", "random_permutations").registry

(***************************************************************************)
(* User-supplied strategies and their sanitized wrapper.  A user function  *)
(* is an arbitrary callable: a call of it ends in one of UserOutcomes.  A  *)
(* returned object is [type, items]: its class and, for a list or a tuple, *)
(* its elements.  An element is a ParamSet record or a mapping.            *)
(***************************************************************************)
NotCalled == [exc |-> "not called", value |-> <<>>]

Object(type, items) == [type |-> type, items |-> items]

\* isinstance(e, Exception): the system-exiting exceptions derive from
\* BaseException only
IsException(e) == e \notin {"KeyboardInterrupt", "SystemExit", "GeneratorExit"}

\* isinstance(x, ParamSet)
IsParamSet(x) == DOMAIN x = {"params", "exe_args"}

\* isinstance(x, Mapping)
IsMapping(x) == DOMAIN x = {"isNone", "items"} /\ ~x.isNone

\* str(fn)
Str(fn) == <<"<function ", fn, ">">>

\* the wrapper that lets every exception of the user function through
sanitized_impl_reraising(fn, outcome) ==
    IF outcome.exc # ""
    THEN outcome
    ELSE IF outcome.value.type # "list"
              \/ \E i \in 1..Len(outcome.value.items) : ~IsParamSet(outcome.value.items[i])
         THEN RaiseWith("UserStrategyError", Str(fn))
         ELSE outcome

\* the wrapper that checks the class of the returned object only
sanitized_impl_unchecked_elements(fn, outcome) ==
    IF outcome.exc # ""
    THEN IF IsException(outcome.exc) THEN RaiseWith("UserStrategyError", Str(fn))
                                     ELSE outcome
    ELSE IF outcome.value.type # "list"
         THEN RaiseWith("UserStrategyError", Str(fn))
         ELSE outcome

\* _make_sanitized_custom_strategy(fn)._impl, given the outcome of the call
\* fn(params, exe_args, n_permutations) it makes
sanitized_impl(fn, outcome) ==
    IF outcome.exc # ""
    THEN IF IsException(outcome.exc) THEN RaiseWith("UserStrategyError", Str(fn))
                                     ELSE outcome
    ELSE IF outcome.value.type # "list"
              \/ \E i \in 1..Len(outcome.value.items) : ~IsParamSet(outcome.value.items[i])
         THEN RaiseWith("UserStrategyError", Str(fn))
         ELSE outcome

(***************************************************************************)
(* The ensemble.                                                           *)
(***************************************************************************)
\* a positional argument of a strategy call: a mapping or an int
Mapping(space) == [kind |-> "mapping", space |-> space, int |-> 0]

IntArg(n) == [kind |-> "int", space |-> <<>>, int |-> n]

\* The possible outcomes of calling a built-in strategy function with two
\* positional arguments and an optional third.  Both arguments are used as
\* mappings (.values()); an int has no such attribute.
call_builtin(fn, a1, a2, n) ==
    IF a1.kind # "mapping" \/ a2.kind # "mapping"
    THEN {Raise("AttributeError")}
    ELSE CASE fn = "create_all_permutations" ->
                  {create_all_permutations(a1.space, a2.space, n)}
           [] fn = "step_values" -> {step_values(a1.space, a2.space, n)}
           [] fn = "random_permutations" -> random_permutations(a1.space, a2.space, n)

\* an optional parameter space given to the constructor
NoSpace == [isNone |-> TRUE, space |-> <<>>]

GivenSpace(space) == [isNone |-> FALSE, space |-> space]

\* Ensemble.__init__: an absent or empty space is stored as {}
Ensemble_init(args) ==
    [name |-> args.name,
     parameters |-> IF args.parameters.isNone THEN <<>> ELSE args.parameters.space,
     permutation_strategy |-> args.permutation_strategy,
     exe_arg_parameters |->
         IF args.exe_arg_parameters.isNone THEN <<>> ELSE args.exe_arg_parameters.space,
     max_permutations |-> args.max_permutations,
     replicas |-> args.replicas,
     exe_args |-> args.exe_args]

(***************************************************************************)
(* The constructor's arguments as objects.  heap holds the list objects    *)
(* that are the values of the caller's parameters dict; a dict is a        *)
(* sequence of [name, ref], ref an index of heap.  self is what the        *)
(* ensemble holds: dict(parameters) is a new dict of the same list         *)
(* objects, copy.deepcopy(exe_arg_parameters) and list(exe_args) share     *)
(* nothing mutable with the caller and are kept by value.                  *)
(***************************************************************************)
Deref(refs, heap) ==
    [j \in 1..Len(refs) |-> [name |-> refs[j].name, vals |-> heap[refs[j].ref]]]

\* the objects the caller passes for the arguments args
CallerObjects(args) ==
    [parameters |->
         [isNone |-> args.parameters.isNone,
          refs |-> [j \in 1..Len(args.parameters.space) |->
                       [name |-> args.parameters.space[j].name, ref |-> j]]],
     exe_arg_parameters |-> args.exe_arg_parameters,
     exe_args |-> args.exe_args]

\* Ensemble.__init__ on those objects
Ensemble_init_objects(args) ==
    [heap |-> [j \in 1..Len(args.parameters.space) |-> args.parameters.space[j].vals],
     caller |-> CallerObjects(args),
     self |-> [Ensemble_init(args) EXCEPT
                  !.parameters = IF args.parameters.isNone
                                 THEN <<>>
                                 ELSE CallerObjects(args).parameters.refs],
     mutations |-> 0]

\* the ensemble's attributes by value
SelfView(o) == [o.self EXCEPT !.parameters = Deref(@, o.heap)]

\* parameters[name] = vals, vals a new list
caller_setitem(o, name, vals) ==
    [o EXCEPT !.heap = Append(@, vals),
              !.caller.parameters.refs =
                  IF \E j \in 1..Len(@) : @[j].name = name
                  THEN [j \in 1..Len(@) |->
                           IF @[j].name = name
                           THEN [name |-> name, ref |-> Len(o.heap) + 1] ELSE @[j]]
                  ELSE Append(@, [name |-> name, ref |-> Len(o.heap) + 1])]

\* del parameters[name]
caller_delitem(o, name) ==
    [o EXCEPT !.caller.parameters.refs = SelectSeq(@, LAMBDA e : e.name # name)]

\* parameters[name].append(v)
caller_append(o, name, v) ==
    LET refs == o.caller.parameters.refs
        ref == refs[CHOOSE j \in 1..Len(refs) : refs[j].name = name].ref
    IN [o EXCEPT !.heap[ref] = Append(@, v)]

\* exe_arg_parameters[name].append(v)
caller_exe_arg_append(o, name, v) ==
    [o EXCEPT !.caller.exe_arg_parameters.space =
                  [j \in 1..Len(@) |->
                      IF @[j].name = name
                      THEN [name |-> name, vals |-> Append(@[j].vals, v)] ELSE @[j]]]

\* exe_args.append(v)
caller_exe_args_append(o, v) == [o EXCEPT !.caller.exe_args = Append(@, v)]

\* perm(a1, a2) for the resolved strategy perm: the possible outcomes, each
\* with the calls of a user function it made.  outcome is how the call of
\* the user function ends, when perm wraps one.
call_strategy(perm, a1, a2, n, outcome) ==
    IF perm.sanitized
    THEN {[ret |-> sanitized_impl(perm.fn, outcome),
           calls |-> <<[fn |-> perm.fn, args |-> <<a1, a2, IntArg(n)>>,
                        outcome |-> outcome]>>]}
    ELSE {[ret |-> r, calls |-> <<>>] : r \in call_builtin(perm.fn, a1, a2, n)}

\* strategies.resolve_combination(test): the strategies module has no
\* attribute of that name
resolve_combination(strategy) == Raise("AttributeError")

\* The possible outcomes of Ensemble._create_applications, each with the
\* calls of a user function it made.  The strategy is called with
\* (parameters, max_permutations) and then with (exe_arg_parameters,
\* max_permutations); o1 and o2 are how those calls end when the strategy is
\* a user function.
create_applications(self, reg, o1, o2) ==
    LET perm == resolve(reg, self.permutation_strategy)
    IN IF perm.exc # "" THEN {[ret |-> perm, calls |-> <<>>]}
       ELSE UNION {
           IF f.ret.exc # "" THEN {f}
           ELSE UNION {
               IF e.ret.exc # ""
               THEN {[ret |-> e.ret, calls |-> f.calls \o e.calls]}
               ELSE {[ret |-> resolve_combination(self.permutation_strategy),
                      calls |-> f.calls \o e.calls]}
               : e \in call_strategy(perm.value, Mapping(self.exe_arg_parameters),
                                     IntArg(self.max_permutations), 0, o2)}
           : f \in call_strategy(perm.value, Mapping(self.parameters),
                                 IntArg(self.max_permutations), 0, o1)}

\* _mock.Job(app, settings)
Job(app, settings) == [app |-> app, settings |-> settings]

\* Ensemble.as_jobs(settings), given the outcome apps of the call of
\* _create_applications it makes
as_jobs(apps, settings) ==
    IF apps.exc # "" THEN apps
    ELSE IF Len(apps.value) = 0
         THEN RaiseWith("ValueError", <<"There are no members as part of this ensemble">>)
         ELSE Return([j \in 1..Len(apps.value) |-> Job(apps.value[j], settings)])

(***************************************************************************)
(* clusterLauncher.check_cluster_status.  The state of one call is         *)
(* [nodes, ports, node_list, trials, attempts, pc, ret]: attempts is the   *)
(* outcome of every verification attempt made so far, pc the position in   *)
(* the function ("start", "loop": at the while test, "check": at the test  *)
(* after the loop, "done").                                                *)
(***************************************************************************)
\* node_list: one {"host", "port"} dict per node and port, nodes outer
NodeList(nodes, ports) ==
    Flatten([i \in 1..Len(nodes) |->
                [k \in 1..Len(ports) |-> [host |-> nodes[i], port |-> ports[k]]]])

\* lines 58-66: the state at the first test of the while loop
check_cluster_status_begin(nodes, ports) ==
    [nodes |-> nodes, ports |-> ports, node_list |-> NodeList(nodes, ports),
     trials |-> Trials, attempts |-> <<>>, pc |-> "loop", ret |-> NotCalled]

\* a loop body that counts the attempt also when it succeeds, and goes on
attempt_without_break(c, outcome) ==
    IF outcome \in {"ok", "ClusterDownError"}
    THEN [c EXCEPT !.attempts = Append(@, outcome), !.trials = @ - 1]
    ELSE [c EXCEPT !.attempts = Append(@, outcome), !.pc = "done", !.ret = Raise(outcome)]

\* a loop body that takes two trials for every failure
attempt_counting_twice(c, outcome) ==
    CASE outcome = "ok" -> [c EXCEPT !.attempts = Append(@, outcome), !.pc = "check"]
      [] outcome = "ClusterDownError" ->
             [c EXCEPT !.attempts = Append(@, outcome), !.trials = @ - 2]
      [] OTHER -> [c EXCEPT !.attempts = Append(@, outcome), !.pc = "done",
                            !.ret = Raise(outcome)]

\* lines 68-76, one pass of the loop body: the attempt succeeds (break), fails
\* with ClusterDownError (sleep, one trial less), or fails with an exception
\* the try statement does not catch
attempt(c, outcome) ==
    CASE outcome = "ok" -> [c EXCEPT !.attempts = Append(@, outcome), !.pc = "check"]
      [] outcome = "ClusterDownError" ->
             [c EXCEPT !.attempts = Append(@, outcome), !.trials = @ - 1]
      [] OTHER -> [c EXCEPT !.attempts = Append(@, outcome), !.pc = "done",
                            !.ret = Raise(outcome)]

\* lines 77-78
final_check(c) ==
    IF c.trials = 0
    THEN [c EXCEPT !.pc = "done",
                   !.ret = RaiseWith("ClusterLauncherError",
                                     <<"Cluster setup could not be verified">>)]
    ELSE [c EXCEPT !.pc = "done", !.ret = Return(<<>>)]

(***************************************************************************)
(* Inputs.                                                                 *)
(***************************************************************************)
FileNames == <<"SPAM", "EGGS", "HAM", "TOAST">>

ExeNames == <<"EXE", "ARGS", "OPTS", "FLAGS">>

FileValues == <<"a", "b", "c", "d">>

ExeValues == << <<"a">>, <<"b", "c">>, <<"d">>, <<"e", "f">> >>

\* value-sequences of length 0..MaxLen, and one with a repeated value
ValueSeqs(vals) ==
    {SubSeq(vals, 1, l) : l \in 0..MaxLen} \cup {<<vals[1], vals[1]>>}

Spaces(names, vals) ==
    UNION {{[j \in 1..k |-> [name |-> names[j], vals |-> c[j]]] :
               c \in [1..k -> ValueSeqs(vals)]} : k \in 0..MaxParams}

Budgets == (0 - 1)..MaxBudget

StrategyInit ==
    /\ file_params \in Spaces(FileNames, FileValues)
    /\ exe_arg_params \in Spaces(ExeNames, ExeValues)
    /\ n_permutations \in Budgets
    /\ called = "none"
    /\ permutations = Return(<<>>)

RegisteredNames == {"all_perm", "step", "random", "mine", "theirs"}

UserFunctions == {"user_fn_1", "user_fn_2"}

\* what the caller changes in the objects it passed to the constructor
MutatedNames == {FileNames[1], FileNames[2]}

MutatedExeNames == {ExeNames[1]}

NewValueLists == {<<"x">>}

NewValues == {"y"}

NewExeValues == {<<"y">>}

Hosts == <<"node1", "node2", "node3", "node4">>

Ports == <<6379, 6380, 6381, 6382>>

\* how one verification attempt may end
AttemptOutcomes == {"ok", "ClusterDownError", "ConnectionError"}

\* the threads that register concurrently, and the names they register
Threads == {"t1", "t2"}

ThreadNames == {"all_perm", "mine", "theirs"}

\* functions written as combination strategies
CombinationFunctions == {"combination_fn"}

RequestedStrategies ==
    {StrategyName(nm) : nm \in RegisteredNames \cup {"THIS-STRATEGY-DNE"}}
        \cup {Callable(f) : f \in UserFunctions}

ExceptionTypes ==
    {"ValueError", "TypeError", "RuntimeError", "KeyboardInterrupt", "SystemExit"}

\* what a user function may put in the sequence it returns
ReturnedElements ==
    {ParamSet(Dict({}), Dict({})),
     ParamSet(Dict({<<"SPAM", "a">>}), Dict({<<"EXE", <<"a">>>>})),
     Dict({<<"SPAM", "a">>})}

ReturnedObjects ==
    {Object(t, items) : t \in {"list", "tuple"},
                        items \in UNION {[1..k -> ReturnedElements] : k \in 0..MaxItems}}
        \cup {Object("NoneType", <<>>)}

UserOutcomes == {Raise(e) : e \in ExceptionTypes} \cup {Return(o) : o \in ReturnedObjects}

\* spaces an ensemble is constructed with: at most one parameter per axis
EnsembleSpaces(names, vals) ==
    {NoSpace, GivenSpace(<<>>)} \cup
        {GivenSpace(<<[name |-> names[1], vals |-> v]>>) : v \in ValueSeqs(vals)}

BuiltinStrategies == {"all_perm", "step", "random"}

\* how a call of the user function an ensemble was given may end
EnsembleUserOutcomes ==
    {Raise("ValueError"),
     Return(Object("list", <<>>)),
     Return(Object("list", <<ParamSet(Dict({<<"SPAM", "a">>}), Dict({<<"EXE", <<"a">>>>})),
                             ParamSet(Dict({<<"SPAM", "b">>}), Dict({}))>>)),
     Return(Object("tuple", <<ParamSet(Dict({}), Dict({}))>>))}

LaunchSettings == {"settings_1", "settings_2"}

CtorArgs ==
    [name : {"test_ensemble"},
     parameters : EnsembleSpaces(FileNames, FileValues),
     exe_arg_parameters : EnsembleSpaces(ExeNames, ExeValues),
     permutation_strategy :
         {StrategyName(name) : name \in BuiltinStrategies \cup {"THIS-STRATEGY-DNE"}}
             \cup {Callable(fn) : fn \in UserFunctions},
     max_permutations : 0..MaxBudget,
     replicas : 0..MaxReplicas,
     exe_args : {<<"hello", "world">>}]

DefaultCtorArgs ==
    [name |-> "test_ensemble", parameters |-> NoSpace, exe_arg_parameters |-> NoSpace,
     permutation_strategy |-> StrategyName("all_perm"), max_permutations |-> 0,
     replicas |-> 1, exe_args |-> <<"hello", "world">>]

FixedStrategyInputs ==
    /\ file_params = <<>>
    /\ exe_arg_params = <<>>
    /\ n_permutations = 0
    /\ called = "none"
    /\ permutations = Return(<<>>)

RegistryInit ==
    /\ REGISTERED_STRATEGIES = ImportedRegistry
    /\ reg_call = [op |-> "none"]
    /\ reg_ret = Return(<<>>)
    /\ threads = <<>>

NoUserCalls ==
    /\ user_calls = <<>>
    /\ sanitized_ret = NotCalled

NoCluster == cluster = [pc |-> "not called"]

FixedEnsemble ==
    /\ ctor_args = DefaultCtorArgs
    /\ ensemble = Ensemble_init(DefaultCtorArgs)
    /\ objects = Ensemble_init_objects(DefaultCtorArgs)
    /\ applications = NotCalled
    /\ launch_settings = "none"
    /\ jobs = NotCalled

EnsembleInit ==
    /\ ctor_args \in CtorArgs
    /\ ensemble = Ensemble_init(ctor_args)
    /\ objects = Ensemble_init_objects(ctor_args)
    /\ applications = NotCalled
    /\ launch_settings = "none"
    /\ jobs = NotCalled

Init == StrategyInit /\ RegistryInit /\ FixedEnsemble /\ NoUserCalls /\ NoCluster

CreateAllPermutations ==
    /\ called = "none"
    /\ called' = "all_perm"
    /\ permutations' = create_all_permutations(file_params, exe_arg_params, n_permutations)
    /\ UNCHANGED <<file_params, exe_arg_params, n_permutations>>
    /\ UNCHANGED cluster
    /\ UNCHANGED <<registry_vars, ensemble_vars, user_vars>>

StepValues ==
    /\ called = "none"
    /\ called' = "step"
    /\ permutations' = step_values(file_params, exe_arg_params, n_permutations)
    /\ UNCHANGED <<file_params, exe_arg_params, n_permutations>>
    /\ UNCHANGED cluster
    /\ UNCHANGED <<registry_vars, ensemble_vars, user_vars>>

RandomPermutations ==
    /\ called = "none"
    /\ called' = "random"
    /\ permutations' \in random_permutations(file_params, exe_arg_params, n_permutations)
    /\ UNCHANGED <<file_params, exe_arg_params, n_permutations>>
    /\ UNCHANGED cluster
    /\ UNCHANGED <<registry_vars, ensemble_vars, user_vars>>

Next == CreateAllPermutations \/ StepValues \/ RandomPermutations

Spec == Init /\ [][Next]_vars

Register(name, fn) ==
    /\ REGISTERED_STRATEGIES' = register(REGISTERED_STRATEGIES, name, fn).registry
    /\ reg_call' = [op |-> "register", name |-> name, fn |-> fn]
    /\ reg_ret' = register(REGISTERED_STRATEGIES, name, fn).ret
    /\ UNCHANGED <<threads, strategy_vars, ensemble_vars, user_vars>>
    /\ UNCHANGED cluster

Resolve(strategy) ==
    /\ reg_call' = [op |-> "resolve", strategy |-> strategy]
    /\ reg_ret' = resolve(REGISTERED_STRATEGIES, strategy)
    /\ UNCHANGED REGISTERED_STRATEGIES
    /\ UNCHANGED <<threads, strategy_vars, ensemble_vars, user_vars>>
    /\ UNCHANGED cluster

\* strategies.resolve_combination(strategy)
ResolveCombination(strategy) ==
    /\ reg_call' = [op |-> "resolve_combination", strategy |-> strategy]
    /\ reg_ret' = resolve_combination(strategy)
    /\ UNCHANGED REGISTERED_STRATEGIES
    /\ UNCHANGED <<threads, strategy_vars, ensemble_vars, user_vars>>
    /\ UNCHANGED cluster

RegistryNext ==
    \/ \E name \in RegisteredNames, fn \in UserFunctions \cup CombinationFunctions :
           Register(name, fn)
    \/ \E strategy \in RequestedStrategies : Resolve(strategy)
    \/ \E strategy \in RequestedStrategies : ResolveCombination(strategy)

RegistrySpecInit == FixedStrategyInputs /\ RegistryInit /\ FixedEnsemble /\ NoUserCalls /\ NoCluster

RegistrySpec == RegistrySpecInit /\ [][RegistryNext]_vars

(***************************************************************************)
(* Two threads that each run _register(name)(fn).  No lock is taken, so    *)
(* another thread may run between the membership test and the assignment.  *)
(***************************************************************************)
\* thread t evaluates "if name in _REGISTERED_STRATEGIES" and raises when
\* the name is there
ThreadCheck(t) ==
    /\ threads[t].pc = "check"
    /\ threads' =
           IF threads[t].name \in Range(Names(REGISTERED_STRATEGIES))
           THEN [threads EXCEPT ![t].pc = "done",
                                ![t].ret = register(REGISTERED_STRATEGIES,
                                                    threads[t].name, threads[t].fn).ret]
           ELSE [threads EXCEPT ![t].pc = "assign"]
    /\ UNCHANGED <<REGISTERED_STRATEGIES, reg_call, reg_ret>>
    /\ UNCHANGED <<strategy_vars, ensemble_vars, user_vars>>
    /\ UNCHANGED cluster

\* thread t runs "_REGISTERED_STRATEGIES[name] = fn" and returns fn
ThreadAssign(t) ==
    /\ threads[t].pc = "assign"
    /\ REGISTERED_STRATEGIES' =
           DictSet(REGISTERED_STRATEGIES, threads[t].name, threads[t].fn)
    /\ threads' = [threads EXCEPT ![t].pc = "done", ![t].ret = Return(threads[t].fn)]
    /\ UNCHANGED <<reg_call, reg_ret>>
    /\ UNCHANGED <<strategy_vars, ensemble_vars, user_vars>>
    /\ UNCHANGED cluster

ConcurrentNext == \E t \in Threads : ThreadCheck(t) \/ ThreadAssign(t)

ConcurrentSpecInit ==
    /\ FixedStrategyInputs /\ FixedEnsemble /\ NoUserCalls /\ NoCluster
    /\ REGISTERED_STRATEGIES = ImportedRegistry
    /\ reg_call = [op |-> "none"]
    /\ reg_ret = Return(<<>>)
    /\ threads \in [Threads -> [name : ThreadNames, fn : UserFunctions,
                                 pc : {"check"}, ret : {NotCalled}]]

ConcurrentSpec == ConcurrentSpecInit /\ [][ConcurrentNext]_vars

(***************************************************************************)
(* One call check_cluster_status(nodes, ports).                            *)
(***************************************************************************)
ClusterUnchanged ==
    UNCHANGED <<strategy_vars, registry_vars, ensemble_vars, user_vars>>

\* the call, up to the first test of the loop
CheckClusterStatus ==
    /\ cluster.pc = "start"
    /\ cluster' = check_cluster_status_begin(cluster.nodes, cluster.ports)
    /\ ClusterUnchanged

\* while trials > 0: one pass of the body
Attempt(outcome) ==
    /\ cluster.pc = "loop"
    /\ cluster.trials > 0
    /\ cluster' = attempt(cluster, outcome)
    /\ ClusterUnchanged

\* the while test fails
ExitLoop ==
    /\ cluster.pc = "loop"
    /\ ~(cluster.trials > 0)
    /\ cluster' = [cluster EXCEPT !.pc = "check"]
    /\ ClusterUnchanged

\* if trials == 0: raise
FinalCheck ==
    /\ cluster.pc = "check"
    /\ cluster' = final_check(cluster)
    /\ ClusterUnchanged

ClusterNext ==
    \/ CheckClusterStatus
    \/ \E outcome \in AttemptOutcomes : Attempt(outcome)
    \/ ExitLoop
    \/ FinalCheck

ClusterSpecInit ==
    /\ FixedStrategyInputs /\ RegistryInit /\ FixedEnsemble /\ NoUserCalls
    /\ \E nodes \in {SubSeq(Hosts, 1, k) : k \in 0..MaxNodes},
          ports \in {SubSeq(Ports, 1, k) : k \in 0..MaxPorts} :
           cluster = [nodes |-> nodes, ports |-> ports, node_list |-> <<>>,
                      trials |-> 0, attempts |-> <<>>, pc |-> "start", ret |-> NotCalled]

ClusterSpec == ClusterSpecInit /\ [][ClusterNext]_vars

\* every step of the function is taken in the end: an attempt returns or
\* raises, and time.sleep(5) returns
ClusterFairSpec == ClusterSpec /\ WF_vars(ClusterNext)

(***************************************************************************)
(* The caller changes, after construction, the objects it passed to the    *)
(* constructor.                                                            *)
(***************************************************************************)
\* the caller's operation has left objects o; ensemble is what the ensemble
\* now holds
CallerMutation(o) ==
    /\ objects' = [o EXCEPT !.mutations = @ + 1]
    /\ ensemble' = SelfView(o)
    /\ UNCHANGED <<ctor_args, applications, launch_settings, jobs>>
    /\ UNCHANGED <<strategy_vars, registry_vars, user_vars, cluster>>

CallerSetItem(name, vals) ==
    /\ objects.mutations < MaxMutations
    /\ ~objects.caller.parameters.isNone
    /\ CallerMutation(caller_setitem(objects, name, vals))

CallerDelItem(name) ==
    /\ objects.mutations < MaxMutations
    /\ \E j \in 1..Len(objects.caller.parameters.refs) :
           objects.caller.parameters.refs[j].name = name
    /\ CallerMutation(caller_delitem(objects, name))

CallerAppend(name, v) ==
    /\ objects.mutations < MaxMutations
    /\ \E j \in 1..Len(objects.caller.parameters.refs) :
           objects.caller.parameters.refs[j].name = name
    /\ CallerMutation(caller_append(objects, name, v))

CallerExeArgAppend(name, v) ==
    /\ objects.mutations < MaxMutations
    /\ \E j \in 1..Len(objects.caller.exe_arg_parameters.space) :
           objects.caller.exe_arg_parameters.space[j].name = name
    /\ CallerMutation(caller_exe_arg_append(objects, name, v))

CallerExeArgsAppend(v) ==
    /\ objects.mutations < MaxMutations
    /\ CallerMutation(caller_exe_args_append(objects, v))

IsolationNext ==
    \/ \E name \in MutatedNames, vals \in NewValueLists : CallerSetItem(name, vals)
    \/ \E name \in MutatedNames : CallerDelItem(name)
    \/ \E name \in MutatedNames, v \in NewValues : CallerAppend(name, v)
    \/ \E name \in MutatedExeNames, v \in NewExeValues : CallerExeArgAppend(name, v)
    \/ \E v \in NewValues : CallerExeArgsAppend(v)

IsolationSpecInit ==
    /\ FixedStrategyInputs /\ RegistryInit /\ NoUserCalls /\ NoCluster
    /\ ctor_args \in {a \in CtorArgs : /\ a.permutation_strategy = StrategyName("all_perm")
                                      /\ a.max_permutations = 0
                                      /\ a.replicas = 1}
    /\ ensemble = Ensemble_init(ctor_args)
    /\ objects = Ensemble_init_objects(ctor_args)
    /\ applications = NotCalled
    /\ launch_settings = "none"
    /\ jobs = NotCalled

IsolationSpec == IsolationSpecInit /\ [][IsolationNext]_vars

\* resolve(fn)(file_params, exe_arg_params, n_permutations) for a callable fn
CallSanitized(fn, outcome) ==
    /\ sanitized_ret = NotCalled
    /\ resolve(REGISTERED_STRATEGIES, Callable(fn)).value.sanitized
    /\ user_calls' = <<[fn |-> resolve(REGISTERED_STRATEGIES, Callable(fn)).value.fn,
                        args |-> <<Mapping(file_params), Mapping(exe_arg_params),
                                   IntArg(n_permutations)>>,
                        outcome |-> outcome]>>
    /\ sanitized_ret' = sanitized_impl(fn, outcome)
    /\ UNCHANGED <<strategy_vars, registry_vars, ensemble_vars>>
    /\ UNCHANGED cluster

SanitizedNext == \E fn \in UserFunctions, outcome \in UserOutcomes : CallSanitized(fn, outcome)

SanitizedSpecInit ==
    /\ file_params = <<[name |-> "SPAM", vals |-> <<"a", "b">>]>>
    /\ exe_arg_params \in {<<>>, <<[name |-> "EXE", vals |-> << <<"a">> >>]>>}
    /\ n_permutations \in Budgets
    /\ called = "none"
    /\ permutations = Return(<<>>)
    /\ RegistryInit /\ FixedEnsemble /\ NoUserCalls /\ NoCluster

SanitizedSpec == SanitizedSpecInit /\ [][SanitizedNext]_vars

\* ensemble._create_applications()
CreateApplications(o1, o2) ==
    /\ applications = NotCalled
    /\ \E r \in create_applications(ensemble, REGISTERED_STRATEGIES, o1, o2) :
           /\ applications' = r.ret
           /\ user_calls' = r.calls
    /\ UNCHANGED <<ctor_args, ensemble, launch_settings, jobs, objects, sanitized_ret>>
    /\ UNCHANGED <<strategy_vars, registry_vars>>
    /\ UNCHANGED cluster

\* ensemble.as_jobs(settings); applications is the outcome of the call of
\* _create_applications it makes
AsJobs(settings, o1, o2) ==
    /\ applications = NotCalled
    /\ \E r \in create_applications(ensemble, REGISTERED_STRATEGIES, o1, o2) :
           /\ applications' = r.ret
           /\ user_calls' = r.calls
           /\ jobs' = as_jobs(r.ret, settings)
    /\ launch_settings' = settings
    /\ UNCHANGED <<ctor_args, ensemble, objects, sanitized_ret>>
    /\ UNCHANGED <<strategy_vars, registry_vars>>
    /\ UNCHANGED cluster

EnsembleNext ==
    \E o1 \in EnsembleUserOutcomes, o2 \in EnsembleUserOutcomes :
        \/ CreateApplications(o1, o2)
        \/ \E settings \in LaunchSettings : AsJobs(settings, o1, o2)

EnsembleSpecInit == FixedStrategyInputs /\ RegistryInit /\ EnsembleInit /\ NoUserCalls /\ NoCluster

EnsembleSpec == EnsembleSpecInit /\ [][EnsembleNext]_vars

(***************************************************************************)
(* Reference notions used to state the properties.                         *)
(***************************************************************************)
\* P(X): the product of the lengths of X's value-sequences; 1 for no parameters
RECURSIVE SpaceSize(_)
SpaceSize(space) ==
    IF space = <<>> THEN 1 ELSE Len(Head(space).vals) * SpaceSize(Tail(space))

\* the shortest value-sequence length of a space with at least one parameter
ShortestLen(space) ==
    CHOOSE m \in {Len(space[j].vals) : j \in 1..Len(space)} :
        \A j \in 1..Len(space) : m <= Len(space[j].vals)

\* the assignment taking the i-th value of every parameter
SteppedAssignment(space, i) ==
    Dict({<<space[j].name, space[j].vals[i]>> : j \in 1..Len(space)})

\* all assignments of one axis in cartesian-product order
AxisAssignments(space) ==
    LET tuples == Product(Values(space))
    IN [i \in 1..Len(tuples) |->
           Dict({<<space[j].name, tuples[i][j]>> : j \in 1..Len(space)})]

\* the un-truncated all_perm result: file assignment outer, exe-arg inner
FullResult(fp, ea) ==
    LET fa == AxisAssignments(fp)
        xa == AxisAssignments(ea)
    IN Flatten([i \in 1..Len(fa) |-> [k \in 1..Len(xa) |-> ParamSet(fa[i], xa[k])]])

Count(s, x) == Cardinality({i \in 1..Len(s) : s[i] = x})

SameMultiset(s, t) ==
    /\ Len(s) = Len(t)
    /\ \A x \in Range(s) \cup Range(t) : Count(s, x) = Count(t, x)

\* a budget larger than every result the inputs can produce
LargeBudget == SpaceSize(file_params) * SpaceSize(exe_arg_params) + MaxLen + 1

\* the sequence a built-in strategy computes for one axis before it pairs
\* the two axes (param_zip, exe_arg_zip)
AxisSequence(strategy, space, n) ==
    IF strategy = "step" THEN SliceTo(StepDicts(space), n)
                         ELSE SliceTo(ProductDicts(space), n)

\* itertools.chain.from_iterable(itertools.repeat(p, r) for p in combos)
Replicate(combos, r) == Flatten([i \in 1..Len(combos) |-> [j \in 1..r |-> combos[i]]])

\* f"{name}-{i}"
MemberName(name, i) == <<name, "-", i>>

\* the members built from a replicated sequence of ParamSets, in order
Members(name, psets) ==
    [i \in 1..Len(psets) |->
        [name |-> MemberName(name, i - 1),
         params |-> psets[i].params,
         params_as_args |-> psets[i].exe_args]]

\* the ParamSets all_perm yields for the ensemble's spaces and budget
AllPermOfEnsemble ==
    create_all_permutations(ensemble.parameters, ensemble.exe_arg_parameters,
                            ensemble.max_permutations).value

\* an ensemble that, by the strategies' results, has at least one ParamSet:
\* all_perm with a positive budget
AllPermEnsemble ==
    /\ ensemble.permutation_strategy = StrategyName("all_perm")
    /\ ensemble.max_permutations > 0

C2_NonPositiveBudgetUnbounded ==
    (called # "none" /\ n_permutations <= 0) =>
        /\ permutations.exc = ""
        /\ called = "all_perm" =>
               permutations = create_all_permutations(file_params, exe_arg_params, LargeBudget)
        /\ called = "step" =>
               permutations = step_values(file_params, exe_arg_params, LargeBudget)
        /\ called = "random" =>
               permutations \in random_permutations(file_params, exe_arg_params, LargeBudget)

\* C4: step with exactly one axis unset: k results (capped at a positive
\* budget), the unset axis holding the empty assignment {} in each, the other
\* axis its i-th stepped assignment.
C4_StepUnsetAxisIsEmptyDict ==
    /\ (called = "step" /\ n_permutations > 0
            /\ file_params = <<>> /\ exe_arg_params # <<>>) =>
        /\ permutations.exc = ""
        /\ Len(permutations.value) = Min(n_permutations, ShortestLen(exe_arg_params))
        /\ \A i \in 1..Len(permutations.value) :
              /\ permutations.value[i].params = Dict({})
              /\ permutations.value[i].exe_args = SteppedAssignment(exe_arg_params, i)
    /\ (called = "step" /\ n_permutations > 0
            /\ file_params # <<>> /\ exe_arg_params = <<>>) =>
        /\ permutations.exc = ""
        /\ Len(permutations.value) = Min(n_permutations, ShortestLen(file_params))
        /\ \A i \in 1..Len(permutations.value) :
              /\ permutations.value[i].exe_args = Dict({})
              /\ permutations.value[i].params = SteppedAssignment(file_params, i)

\* the side of a ParamSet that belongs to an axis
FileSide(ps) == ps.params

ExeSide(ps) == ps.exe_args

\* C5 for one axis with at least one parameter: the first m results carry
\* the stepped assignments 1..m of the axis, m = min(budget, shortest
\* value-sequence length), and no later result carries one.
SteppedAxisOk(space, side(_)) ==
    LET m == Min(n_permutations, ShortestLen(space))
    IN /\ m <= Len(permutations.value)
       /\ \A i \in 1..Len(permutations.value) :
             IF i <= m THEN side(permutations.value[i]) = SteppedAssignment(space, i)
                       ELSE side(permutations.value[i]).isNone

C6_StepPairsBothSides ==
    (called = "step" /\ n_permutations > 0
        /\ file_params # <<>> /\ exe_arg_params # <<>>) =>
        /\ permutations.exc = ""
        /\ \A i \in 1..Len(permutations.value) :
              /\ ~permutations.value[i].params.isNone
              /\ ~permutations.value[i].exe_args.isNone
              /\ permutations.value[i].params = SteppedAssignment(file_params, i)
              /\ permutations.value[i].exe_args = SteppedAssignment(exe_arg_params, i)

\* C7: random with 0 < n < size of the full all_perm result: the result is
\* n elements of the full result taken at distinct positions, and every
\* element of the full result appears in some possible outcome.
C7_RandomSamplesFullResult ==
    LET full == FullResult(file_params, exe_arg_params)
    IN (called = "random" /\ 0 < n_permutations /\ n_permutations < Len(full)) =>
        /\ permutations.exc = ""
        /\ Len(permutations.value) = n_permutations
        /\ \A x \in Range(permutations.value) :
              Count(permutations.value, x) <= Count(full, x)
        /\ \A i \in 1..Len(full) :
              \E o \in random_permutations(file_params, exe_arg_params, n_permutations) :
                  full[i] \in Range(o.value)

\* C8: random with a positive budget n >= the number of available results
\* returns every available result exactly once: the same multiset as
\* all_perm for the same inputs, no padding and no omission.
C8_RandomReturnsAll ==
    LET full == FullResult(file_params, exe_arg_params)
    IN (called = "random" /\ n_permutations > 0 /\ n_permutations >= Len(full)) =>
        /\ permutations.exc = ""
        /\ SameMultiset(permutations.value, full)
        /\ SameMultiset(permutations.value,
               create_all_permutations(file_params, exe_arg_params, n_permutations).value)

\* C8 witness: a budget equal to the number of available results, two of
\* which are equal.
C8_Witness ==
    /\ called = "random"
    /\ n_permutations = 2
    /\ file_params = <<[name |-> "SPAM", vals |-> <<"a", "a">>]>>
    /\ exe_arg_params = <<>>
    /\ Len(permutations.value) = 2

(***************************************************************************)
(* Properties of the ensemble (under EnsembleSpec).                        *)
(***************************************************************************)
\* C3: for every built-in strategy, an ensemble whose two parameter spaces
\* are both empty or absent, with replicas = 1, materializes to exactly one
\* member whose file parameters and exe-arg parameters are both {}.
C3_EmptyEnsembleHasOneMember ==
    (applications # NotCalled
        /\ ensemble.permutation_strategy \in {StrategyName(s) : s \in BuiltinStrategies}
        /\ (ctor_args.parameters.isNone \/ ctor_args.parameters.space = <<>>)
        /\ (ctor_args.exe_arg_parameters.isNone \/ ctor_args.exe_arg_parameters.space = <<>>)
        /\ ensemble.replicas = 1) =>
        /\ applications.exc = ""
        /\ Len(applications.value) = 1
        /\ applications.value[1].params = Dict({})
        /\ applications.value[1].params_as_args = Dict({})

(***************************************************************************)
(* Properties of the registry (under RegistrySpec).                        *)
(***************************************************************************)
\* C9: registering under a name already in the registry fails with the
\* duplicate-name error and leaves the registry unchanged: the name still
\* maps to the first function, no entry is added or removed.
C9_DuplicateRegistrationFails ==
    [][(reg_call'.op = "register"
            /\ reg_call'.name \in Range(Names(REGISTERED_STRATEGIES))) =>
        /\ reg_ret'.exc = "ValueError"
        /\ REGISTERED_STRATEGIES' = REGISTERED_STRATEGIES
        /\ Lookup(REGISTERED_STRATEGIES', reg_call'.name) =
               Lookup(REGISTERED_STRATEGIES, reg_call'.name)]_vars

\* C9 witness: a second registration of a user's name with another function
\* has failed; the name maps to the first function.
C9_Witness ==
    /\ reg_call.op = "register"
    /\ reg_call.name = "mine"
    /\ reg_call.fn = "user_fn_2"
    /\ reg_ret.exc = "ValueError"
    /\ Lookup(REGISTERED_STRATEGIES, "mine") = "user_fn_1"

\* C10: resolve(name) of an unregistered name fails with an error whose
\* message contains every name registered at the time of the call; of a
\* registered name it returns exactly the function registered under it;
\* either way the registry is unchanged.
C10_ResolveByName ==
    [][(reg_call'.op = "resolve" /\ ~reg_call'.strategy.isCallable) =>
        /\ REGISTERED_STRATEGIES' = REGISTERED_STRATEGIES
        /\ IF reg_call'.strategy.v \in Range(Names(REGISTERED_STRATEGIES))
           THEN /\ reg_ret'.exc = ""
                /\ ~reg_ret'.value.sanitized
                /\ reg_ret'.value.fn = Lookup(REGISTERED_STRATEGIES, reg_call'.strategy.v)
           ELSE /\ reg_ret'.exc = "ValueError"
                /\ \A j \in 1..Len(REGISTERED_STRATEGIES) :
                      REGISTERED_STRATEGIES[j].name \in Range(reg_ret'.value)]_vars

\* C10 witness: an unregistered name was asked for while a user's strategy
\* was registered next to the built-in ones; the message names it.
C10_Witness ==
    /\ reg_call.op = "resolve"
    /\ reg_call.strategy = StrategyName("THIS-STRATEGY-DNE")
    /\ reg_ret.exc = "ValueError"
    /\ Len(REGISTERED_STRATEGIES) = 4
    /\ "mine" \in Range(reg_ret.value)
    /\ "all_perm" \in Range(reg_ret.value)

(***************************************************************************)
(* Properties of the sanitized wrapper (under SanitizedSpec).              *)
(***************************************************************************)
\* the call of the user function the wrapper made
UserCall == user_calls[1]

WellFormedSequence(o) ==
    /\ o.type \in {"list", "tuple"}
    /\ \/ \A i \in 1..Len(o.items) : IsParamSet(o.items[i])
       \/ \A i \in 1..Len(o.items) : IsMapping(o.items[i])

\* a list whose elements are all ParamSets
ListOfParamSets(o) ==
    /\ o.type = "list"
    /\ \A i \in 1..Len(o.items) : IsParamSet(o.items[i])

\* C12 as claimed: the wrapper raises UserStrategyError exactly when the
\* returned value is not a sequence of ParamSets (or of mappings); a
\* well-formed value of any sequence type is returned with the same elements
\* in the same order.
C12_SequenceOfParamSetsOrMappings ==
    (sanitized_ret # NotCalled /\ UserCall.outcome.exc = "") =>
        IF WellFormedSequence(UserCall.outcome.value)
        THEN /\ sanitized_ret.exc = ""
             /\ sanitized_ret.value.items = UserCall.outcome.value.items
        ELSE sanitized_ret.exc = "UserStrategyError"

\* C12 as amended: the wrapper raises UserStrategyError exactly when the
\* returned value is not a list whose every element is a ParamSet; a list of
\* ParamSets, the empty list included, is returned with the same elements in
\* the same order.
C12_ListOfParamSets ==
    (sanitized_ret # NotCalled /\ UserCall.outcome.exc = "") =>
        IF ListOfParamSets(UserCall.outcome.value)
        THEN /\ sanitized_ret.exc = ""
             /\ sanitized_ret.value = UserCall.outcome.value
        ELSE /\ sanitized_ret.exc = "UserStrategyError"
             /\ UserCall.fn \in Range(sanitized_ret.value)

\* C12 witness: a list of two different ParamSets came back unchanged.
C12_Witness ==
    /\ sanitized_ret # NotCalled
    /\ UserCall.outcome.exc = ""
    /\ UserCall.outcome.value.type = "list"
    /\ Len(UserCall.outcome.value.items) = 2
    /\ UserCall.outcome.value.items[1] # UserCall.outcome.value.items[2]
    /\ sanitized_ret = UserCall.outcome

(***************************************************************************)
(* Properties of materialization and as_jobs (under EnsembleSpec).         *)
(***************************************************************************)
\* C13: when permutation_strategy is a user callable, materialization calls
\* it once with (file-parameter space, exe-arg space, max_permutations) and
\* produces one member per ParamSet it returns, in the returned order, each
\* repeated 'replicas' times, with that ParamSet's parameters.
C13_UserStrategyMembers ==
    (applications # NotCalled
        /\ ensemble.permutation_strategy.isCallable
        /\ user_calls # <<>>
        /\ user_calls[1].outcome.exc = ""
        /\ ListOfParamSets(user_calls[1].outcome.value)) =>
        /\ Len(user_calls) = 1
        /\ user_calls[1].args = <<Mapping(ensemble.parameters),
                                  Mapping(ensemble.exe_arg_parameters),
                                  IntArg(ensemble.max_permutations)>>
        /\ applications =
               Return(Members(ensemble.name,
                              Replicate(user_calls[1].outcome.value.items,
                                        ensemble.replicas)))

\* C14: replication is contiguous: for the ParamSets [P0..P(k-1)] of an
\* all_perm ensemble and replicas = r, materialization yields r*k members
\* and the member at index i has the parameters of P(i div r).
C14_ContiguousReplication ==
    (applications # NotCalled /\ AllPermEnsemble) =>
        /\ applications.exc = ""
        /\ Len(applications.value) = ensemble.replicas * Len(AllPermOfEnsemble)
        /\ \A i \in 0..(Len(applications.value) - 1) :
               /\ applications.value[i + 1].params =
                      AllPermOfEnsemble[(i \div ensemble.replicas) + 1].params
               /\ applications.value[i + 1].params_as_args =
                      AllPermOfEnsemble[(i \div ensemble.replicas) + 1].exe_args

\* C15, the part that does not depend on how Application stores what it is
\* given: materializing an all_perm ensemble with replicas >= 2 yields at
\* least two members, and members derived from the same ParamSet have
\* value-equal file parameters and exe-arg parameters.
C15_ReplicasHaveEqualParameters ==
    (applications # NotCalled /\ AllPermEnsemble /\ ensemble.replicas >= 2) =>
        /\ applications.exc = ""
        /\ Len(applications.value) >= 2
        /\ \A a, b \in 1..Len(applications.value) :
               ((a - 1) \div ensemble.replicas = (b - 1) \div ensemble.replicas) =>
                   /\ applications.value[a].params = applications.value[b].params
                   /\ applications.value[a].params_as_args =
                          applications.value[b].params_as_args

\* C16: with replicas = 0 and a built-in strategy, materialization returns
\* an empty sequence without raising, and as_jobs fails with the
\* empty-ensemble error.
C16_ZeroReplicasIsEmpty ==
    (applications # NotCalled
        /\ ensemble.permutation_strategy \in {StrategyName(s) : s \in BuiltinStrategies}
        /\ ensemble.replicas = 0) =>
        /\ applications = Return(<<>>)
        /\ (jobs # NotCalled =>
               jobs = RaiseWith("ValueError",
                                <<"There are no members as part of this ensemble">>))

\* C17: as_jobs on an all_perm ensemble with replicas >= 1 (which has at
\* least one member) returns exactly one job per materialized member, the
\* j-th job wrapping the j-th member, every job bound to the settings given.
C17_JobsWrapMembers ==
    (jobs # NotCalled /\ AllPermEnsemble /\ ensemble.replicas >= 1) =>
        /\ applications.exc = ""
        /\ jobs.exc = ""
        /\ Len(jobs.value) = Len(applications.value)
        /\ Len(jobs.value) >= 1
        /\ \A j \in 1..Len(jobs.value) :
               jobs.value[j] = Job(applications.value[j], launch_settings)

\* C18: the members of an all_perm ensemble with replicas >= 1 are named
\* '<ensemble name>-<i>', i the position in the replicated sequence from 0
\* without gaps, so the names are pairwise distinct.
C18_MemberNames ==
    (applications # NotCalled /\ AllPermEnsemble /\ ensemble.replicas >= 1) =>
        /\ applications.exc = ""
        /\ Len(applications.value) >= 1
        /\ \A i \in 1..Len(applications.value) :
               applications.value[i].name = MemberName(ensemble.name, i - 1)

C20_IndependentRegistries ==
    [][/\ (reg_call'.op = "register"
              /\ reg_call'.fn \in CombinationFunctions
              /\ ~\E j \in 1..Len(REGISTERED_STRATEGIES) :
                     /\ REGISTERED_STRATEGIES[j].name = reg_call'.name
                     /\ REGISTERED_STRATEGIES[j].fn \in CombinationFunctions) =>
              /\ reg_ret' = Return(reg_call'.fn)
              /\ \A j \in 1..Len(REGISTERED_STRATEGIES) :
                     REGISTERED_STRATEGIES[j].fn \notin CombinationFunctions =>
                         resolve(REGISTERED_STRATEGIES',
                                 StrategyName(REGISTERED_STRATEGIES[j].name)) =
                             resolve(REGISTERED_STRATEGIES,
                                     StrategyName(REGISTERED_STRATEGIES[j].name))
       /\ reg_call'.op = "resolve_combination" => reg_ret'.exc # "AttributeError"]_vars

(***************************************************************************)
(* Concurrent registration (under ConcurrentSpec).                         *)
(***************************************************************************)
\* C21: when two threads have registered under the same name, not
\* registered before, exactly one registration succeeded, the other failed
\* with the duplicate-name error, and the registry holds the function of
\* the one that succeeded.
C21_ExactlyOneRegistrationSucceeds ==
    \A t, u \in Threads :
        (t # u /\ threads[t].pc = "done" /\ threads[u].pc = "done"
             /\ threads[t].name = threads[u].name
             /\ threads[t].name \notin Range(Names(ImportedRegistry))
             /\ threads[t].ret.exc = "") =>
            /\ threads[u].ret.exc = "ValueError"
            /\ Lookup(REGISTERED_STRATEGIES, threads[t].name) = threads[t].fn

(***************************************************************************)
(* Order of resolution and generation (under EnsembleSpec).                *)
(***************************************************************************)
\* C22: when materialization fails because the permutation strategy or the
\* combination strategy cannot be resolved, the error is raised before any
\* strategy function has been called: no call of a user function was made.
C22_FailFastResolution ==
    (applications # NotCalled
        /\ applications \in
               {r \in {resolve(REGISTERED_STRATEGIES, ensemble.permutation_strategy),
                       resolve_combination(ensemble.permutation_strategy)} :
                   r.exc # ""}) =>
        user_calls = <<>>

C24_RaisesIffAllTrialsFail ==
    cluster.pc = "done" =>
        /\ cluster.ret.exc = "ClusterLauncherError" <=>
               /\ Len(cluster.attempts) = Trials
               /\ \A i \in 1..Len(cluster.attempts) :
                      cluster.attempts[i] = "ClusterDownError"
        /\ (cluster.attempts # <<>>
               /\ cluster.attempts[Len(cluster.attempts)] = "ok") =>
               cluster.ret.exc = ""

\* C24 witness: nine attempts failed with ClusterDownError, the tenth
\* succeeded, and the function returned normally.
C24_Witness ==
    /\ cluster.pc = "done"
    /\ Len(cluster.attempts) = Trials
    /\ \A i \in 1..(Trials - 1) : cluster.attempts[i] = "ClusterDownError"
    /\ cluster.attempts[Trials] = "ok"
    /\ cluster.ret.exc = ""

\* at most Trials attempts, none after a success, trials never negative
AttemptsBounded ==
    cluster.pc \in {"loop", "check", "done"} =>
        /\ Len(cluster.attempts) <= Trials
        /\ cluster.trials >= 0
        /\ \A i \in 1..(Len(cluster.attempts) - 1) : cluster.attempts[i] # "ok"

\* C25: whatever the attempts' outcomes, check_cluster_status makes at most
\* Trials (10) attempts, none after the first success, its trials counter
\* never drops below 0, and the call terminates.
C25_BoundedAndTerminates == []AttemptsBounded /\ <>(cluster.pc = "done")

\* C25 witness: the call ended after ten failed attempts with the counter
\* at 0.
C25_Witness ==
    /\ cluster.pc = "done"
    /\ Len(cluster.attempts) = Trials
    /\ cluster.trials = 0
    /\ cluster.ret.exc = "ClusterLauncherError"

C27_IsolatedFromConstructorArguments == ensemble = Ensemble_init(ctor_args)

====
